---- MODULE Spec2Model ----
(***************************************************************************)
(* Room / race state machine of the Xtra-Cars multiplayer server            *)
(* (src/server.py).  Every Socket.IO event handler is one action; the two   *)
(* handlers that suspend on asyncio.sleep (start_race, join_race) are split *)
(* at their sleeps into a first part and two resumption steps.  A handler   *)
(* runs atomically between two sleeps: sio.emit is the transport and is     *)
(* taken not to yield to other handlers.                                    *)
(***************************************************************************)
EXTENDS Integers, Sequences, FiniteSets, TLC

\* Bounds of the model: connections ever made, rooms ever created, handlers
\* suspended at one time.  A specification explores a scenario of at most
\* these sizes, which its initial state fixes in limit.
NumSids == 3
MaxRooms == 2
MaxTasks == 1
MaxUpdates == 2

\* Python's None, for host_sid and room_id.
None == 0

VARIABLES
    players,    \* the dict players: sid -> {name, room_id}
    rooms,      \* the dict rooms: room_id -> room; ids ascend in insertion order
    next_sid,   \* the next connection id the transport issues
    next_room,  \* the next fresh room id (uuid4 never repeats)
    tasks,      \* the handlers suspended in asyncio.sleep
    out,        \* what the last step passed to sio.emit, in order
    raised,     \* whether the last step raised an exception
    limit,      \* the scenario's size: [sids, rooms, tasks], never changed
    race_data   \* the numbers of player_update and player_finish, see below

vars == <<players, rooms, next_sid, next_room, tasks, out, raised, limit, race_data>>

Sids == 1..limit.sids
RoomIds == 1..limit.rooms

----------------------------------------------------------------------------
\* Values

\* One sio.emit(ev, payload, to=to): msg is an error's message, pid the
\* payload's player id, n its duration or timeout.
Msg(ev, to, msg, pid, n) == [ev |-> ev, to |-> to, msg |-> msg, pid |-> pid, n |-> n]

Error(to, msg) == Msg("error", to, msg, None, 0)

\* A member of a room as create_room, join_room and join_race build it.  The
\* keys the handlers add later (finished, last_position, disconnected) are
\* flags that start FALSE: the handlers read them with .get(key, False) or
\* test the key's presence.
NewMember(sid, name, is_host, ready, car_data) ==
    [sid |-> sid, name |-> name, is_host |-> is_host, ready |-> ready,
     car_data |-> car_data, finished |-> FALSE, last_position |-> FALSE,
     disconnected |-> FALSE]

\* A room as create_room and join_race build it.  idle is the reaper's test
\* current_time - last_activity > 600 (created_at while last_activity is
\* absent) as time has made it so far; race_start_time tells whether the key
\* is set; disconnected_players is the archive in insertion order.
NewRoom(host_sid, member, status) ==
    [host_sid |-> host_sid, players |-> <<member>>, status |-> status,
     idle |-> FALSE, race_start_time |-> FALSE, disconnected_players |-> <<>>]

----------------------------------------------------------------------------
\* The ordered dict room['players'], a sequence of members keyed by sid

MemberSids(ps) == {ps[i].sid : i \in 1..Len(ps)}

HasMember(ps, sid) == sid \in MemberSids(ps)

IndexOf(ps, sid) == CHOOSE i \in 1..Len(ps) : ps[i].sid = sid

GetMember(ps, sid) == ps[IndexOf(ps, sid)]

\* The dict as it was: the member is not stored.
KeepMembers(ps, m) == ps

\* ps[sid] = m: in place when the key exists, appended otherwise.
PutMember(ps, m) ==
    IF HasMember(ps, m.sid) THEN [ps EXCEPT ![IndexOf(ps, m.sid)] = m]
    ELSE Append(ps, m)

\* del ps[sid]
DelMember(ps, sid) == SelectSeq(ps, LAMBDA m : m.sid # sid)

\* One emit per member, in dict order.
ToAll(ps, ev, pid, n) == [i \in 1..Len(ps) |-> Msg(ev, ps[i].sid, "", pid, n)]

\* An emit to every member, sid among them.
ToEveryone(ps, sid, ev, pid, n) == ToAll(ps, ev, pid, n)

\* One emit per member other than sid, in dict order.
ToOthers(ps, sid, ev, pid, n) == ToAll(DelMember(ps, sid), ev, pid, n)

\* del d[key] on a dict held as a function.
DropKey(d, key) == [k \in DOMAIN d \ {key} |-> d[k]]

\* d[key] = value on a dict held as a function.
SetKey(d, key, value) == [k \in DOMAIN d \cup {key} |-> IF k = key THEN value ELSE d[k]]

----------------------------------------------------------------------------
\* Suspended handlers

\* start_race holds the room object itself (room = rooms[room_id]), which
\* outlives its registry entry.  Of a room that left the registry the
\* handler reads only the keys of room['players'], which nothing can change
\* any more: detached tells that the room was deleted and held is that list
\* of keys.  stable is history: the room's members are those of the start
\* request.
NewTask(kind, room_id, sid) ==
    [kind |-> kind, room_id |-> room_id, sid |-> sid, pc |-> "sleep1",
     detached |-> FALSE, held |-> <<>>, stable |-> TRUE]

\* The keys of the ordered dict, in order.
Keys(ps) == [i \in 1..Len(ps) |-> ps[i].sid]

\* The tasks after a handler took the registry from old to new; mid is old
\* with the handler's writes and without its deletions.
Sync(tsk, old, mid, new) ==
    [i \in 1..Len(tsk) |->
        LET t == tsk[i] IN
        IF t.room_id \notin DOMAIN old THEN t
        ELSE LET same == MemberSids(mid[t.room_id].players) = MemberSids(old[t.room_id].players) IN
             IF t.room_id \notin DOMAIN new
             THEN [t EXCEPT !.detached = TRUE,
                            !.held = IF t.kind = "start_race" THEN Keys(mid[t.room_id].players) ELSE <<>>,
                            !.stable = t.stable /\ same]
             ELSE [t EXCEPT !.stable = t.stable /\ same]]

----------------------------------------------------------------------------
\* The state after the module is loaded: rooms = {}, players = {}.
Scenario(sids, rms, tsk) ==
    /\ players = <<>>
    /\ rooms = <<>>
    /\ next_sid = 1
    /\ next_room = 1
    /\ tasks = <<>>
    /\ out = <<>>
    /\ raised = FALSE
    /\ limit = [sids |-> sids, rooms |-> rms, tasks |-> tsk]
    /\ race_data = [last_position |-> [sid \in 1..sids |-> [kind |-> "number", n |-> 0]],
                    finish_time |-> [sid \in 1..sids |-> 0],
                    sent_finish_time |-> 0,
                    position |-> [kind |-> "number", n |-> 0],
                    speed |-> [kind |-> "number", n |-> 0],
                    results |-> <<>>,
                    updates |-> 0]

\* connect: the transport issues its ids in order and never twice.
Connect(sid) ==
    /\ sid = next_sid
    /\ sid <= limit.sids
    /\ players' = SetKey(players, sid, [name |-> sid, room_id |-> None])
    /\ next_sid' = next_sid + 1
    /\ out' = <<>>
    /\ raised' = FALSE
    /\ UNCHANGED <<rooms, next_room, tasks, limit, race_data>>

\* "If host left, delete room or transfer host", shared by disconnect and
\* leave_room: the registry, then the emits.
HostLeft(rms, room_id, sid) ==
    LET room == rms[room_id] IN
    IF sid # room.host_sid THEN [rooms |-> rms, out |-> <<>>]
    ELSE IF room.players # <<>>
    THEN LET new_host_sid == room.players[1].sid IN
         [rooms |-> [rms EXCEPT ![room_id].host_sid = new_host_sid,
                                ![room_id].players[1].is_host = TRUE],
          out |-> <<Msg("host_transferred", new_host_sid, "", None, 0)>>]
    ELSE [rooms |-> DropKey(rms, room_id), out |-> <<>>]

\* The archive entry disconnect writes: disconnected_players[name] = {...}.
Archived(arch, name, sid) ==
    LET e == [name |-> name, sid |-> sid, expired |-> FALSE, timeout |-> 60] IN
    IF \E i \in 1..Len(arch) : arch[i].name = name
    THEN [i \in 1..Len(arch) |-> IF arch[i].name = name THEN e ELSE arch[i]]
    ELSE Append(arch, e)

\* The member removed at once whatever the room's status.
Removed(room, sid) ==
    [room |-> [room EXCEPT !.players = DelMember(room.players, sid)],
     out |-> ToAll(DelMember(room.players, sid), "player_left", sid, 0)]

\* disconnect, up to the host transfer: the room with the member flagged
\* (racing) or removed (otherwise), and the emits.
Departed(room, sid) ==
    LET m == GetMember(room.players, sid) IN
    IF room.status = "racing"
    THEN [room |-> [room EXCEPT
                      !.players[IndexOf(room.players, sid)].disconnected = TRUE,
                      !.disconnected_players = Archived(room.disconnected_players, m.name, sid)],
          out |-> ToOthers(room.players, sid, "player_disconnected", sid, 60)]
    ELSE [room |-> [room EXCEPT !.players = DelMember(room.players, sid)],
          out |-> ToAll(DelMember(room.players, sid), "player_left", sid, 0)]

Disconnect(sid) ==
    /\ sid \in DOMAIN players
    /\ LET room_id == players[sid].room_id IN
       IF room_id # None /\ room_id \in DOMAIN rooms /\ HasMember(rooms[room_id].players, sid)
       THEN LET d == Departed(rooms[room_id], sid)
                mid == [rooms EXCEPT ![room_id] = d.room]
                h == HostLeft(mid, room_id, sid)
                keep == [r \in DOMAIN mid |-> IF r \in DOMAIN h.rooms THEN h.rooms[r] ELSE mid[r]]
            IN /\ rooms' = h.rooms
               /\ out' = d.out \o h.out
               /\ tasks' = Sync(tasks, rooms, keep, h.rooms)
               /\ raised' = FALSE
       ELSE /\ out' = <<>>
            /\ raised' = FALSE
            /\ UNCHANGED <<rooms, tasks>>
    /\ players' = DropKey(players, sid)
    /\ UNCHANGED <<next_sid, next_room, limit, race_data>>

CreateRoom(sid) ==
    /\ sid \in DOMAIN players
    /\ next_room <= limit.rooms
    /\ LET room_id == next_room
           player_name == players[sid].name
       IN /\ rooms' = SetKey(rooms, room_id,
                         NewRoom(sid, NewMember(sid, player_name, TRUE, FALSE, FALSE), "waiting"))
          /\ players' = [players EXCEPT ![sid].room_id = room_id]
          /\ out' = <<Msg("room_joined", sid, "", None, 0)>>
          /\ raised' = FALSE
    /\ next_room' = next_room + 1
    /\ UNCHANGED <<next_sid, tasks, limit, race_data>>

\* RoomIsFull off by one: a third member gets in.
RoomIsFullOffByOne(room) == Len(room.players) > 2

\* "Check if room is full (1v1 = max 2 players)"
RoomIsFull(room) == Len(room.players) >= 2

JoinRoom(sid, room_id) ==
    /\ sid \in DOMAIN players
    /\ raised' = FALSE
    /\ IF room_id \notin DOMAIN rooms
       THEN /\ out' = <<Error(sid, "Room not found")>>
            /\ UNCHANGED <<players, rooms, tasks>>
       ELSE IF RoomIsFull(rooms[room_id])
       THEN /\ out' = <<Error(sid, "Room is full")>>
            /\ UNCHANGED <<players, rooms, tasks>>
       ELSE IF rooms[room_id].status = "racing"
       THEN /\ out' = <<Error(sid, "Race already in progress")>>
            /\ UNCHANGED <<players, rooms, tasks>>
       ELSE LET player_name == players[sid].name
                ps == PutMember(rooms[room_id].players,
                                NewMember(sid, player_name, FALSE, FALSE, FALSE))
            IN /\ rooms' = [rooms EXCEPT ![room_id].players = ps]
               /\ players' = [players EXCEPT ![sid].room_id = room_id]
               /\ out' = <<Msg("room_joined", sid, "", None, 0)>>
                         \o ToOthers(ps, sid, "player_joined", sid, 0)
               /\ tasks' = Sync(tasks, rooms, rooms', rooms')
    /\ UNCHANGED <<next_sid, next_room, limit, race_data>>

LeaveRoom(sid) ==
    /\ sid \in DOMAIN players
    /\ LET room_id == players[sid].room_id IN
       IF room_id # None /\ room_id \in DOMAIN rooms
       THEN /\ IF HasMember(rooms[room_id].players, sid)
               THEN LET ps == DelMember(rooms[room_id].players, sid)
                        mid == [rooms EXCEPT ![room_id].players = ps]
                        h == HostLeft(mid, room_id, sid)
                        keep == [r \in DOMAIN mid |-> IF r \in DOMAIN h.rooms THEN h.rooms[r] ELSE mid[r]]
                    IN /\ rooms' = h.rooms
                       /\ out' = ToAll(ps, "player_left", sid, 0) \o h.out
                       /\ tasks' = Sync(tasks, rooms, keep, h.rooms)
               ELSE /\ out' = <<>>
                    /\ UNCHANGED <<rooms, tasks>>
            /\ players' = [players EXCEPT ![sid].room_id = None]
            /\ raised' = FALSE
       ELSE /\ out' = <<>>
            /\ raised' = FALSE
            /\ UNCHANGED <<players, rooms, tasks>>
    /\ UNCHANGED <<next_sid, next_room, limit, race_data>>

\* select_car, player_ready and chat_message run only for a caller whose
\* room_id names a room of the registry.
InRoom(sid) ==
    /\ sid \in DOMAIN players
    /\ players[sid].room_id # None
    /\ players[sid].room_id \in DOMAIN rooms

SelectCar(sid) ==
    /\ sid \in DOMAIN players
    /\ LET room_id == players[sid].room_id IN
       IF InRoom(sid) /\ HasMember(rooms[room_id].players, sid)
       THEN /\ rooms' = [rooms EXCEPT
                           ![room_id].players[IndexOf(rooms[room_id].players, sid)].car_data = TRUE,
                           ![room_id].idle = FALSE]
            /\ out' = ToOthers(rooms[room_id].players, sid, "player_car_selected", sid, 0)
            /\ raised' = FALSE
       ELSE /\ out' = <<>>
            /\ raised' = FALSE
            /\ UNCHANGED rooms
    /\ UNCHANGED <<players, next_sid, next_room, tasks, limit, race_data>>

PlayerReady(sid, ready_status) ==
    /\ sid \in DOMAIN players
    /\ LET room_id == players[sid].room_id IN
       IF InRoom(sid) /\ HasMember(rooms[room_id].players, sid)
       THEN /\ rooms' = [rooms EXCEPT
                           ![room_id].players[IndexOf(rooms[room_id].players, sid)].ready = ready_status,
                           ![room_id].idle = FALSE]
            /\ out' = ToOthers(rooms[room_id].players, sid, "player_ready_changed", sid, 0)
            /\ raised' = FALSE
       ELSE /\ out' = <<>>
            /\ raised' = FALSE
            /\ UNCHANGED rooms
    /\ UNCHANGED <<players, next_sid, next_room, tasks, limit, race_data>>

\* chat_message reads the sender's member before anything else: a sender
\* who is no member of the room raises KeyError.
ChatMessage(sid) ==
    /\ sid \in DOMAIN players
    /\ LET room_id == players[sid].room_id IN
       IF InRoom(sid)
       THEN IF HasMember(rooms[room_id].players, sid)
            THEN /\ rooms' = [rooms EXCEPT ![room_id].idle = FALSE]
                 /\ out' = ToAll(rooms[room_id].players, "chat_message", sid, 0)
                 /\ raised' = FALSE
            ELSE /\ out' = <<>>
                 /\ raised' = TRUE
                 /\ UNCHANGED rooms
       ELSE /\ out' = <<>>
            /\ raised' = FALSE
            /\ UNCHANGED rooms
    /\ UNCHANGED <<players, next_sid, next_room, tasks, limit, race_data>>

----------------------------------------------------------------------------
\* start_race

\* "Check if we have exactly 2 players for 1v1"
WrongPlayerCount(room) == Len(room.players) # 2

\* "Check if player is ready (if not host)"
RequesterNotReady(room, sid) ==
    room.host_sid # sid /\ ~GetMember(room.players, sid).ready

\* AllOthersReady without its player_sid != sid: the requester must be
\* ready too, host or not.
AllReady(room, sid) ==
    \A i \in 1..Len(room.players) : room.players[i].ready

\* "Check if all other players are ready"
AllOthersReady(room, sid) ==
    \A i \in 1..Len(room.players) :
        room.players[i].sid # sid => room.players[i].ready

\* start_race up to its first sleep.
StartRace(sid) ==
    /\ sid \in DOMAIN players
    /\ LET room_id == players[sid].room_id IN
       IF ~InRoom(sid)
       THEN /\ out' = <<>>
            /\ raised' = FALSE
            /\ UNCHANGED <<rooms, tasks>>
       ELSE LET room == rooms[room_id] IN
            IF WrongPlayerCount(room)
            THEN /\ out' = <<Error(sid, "Need exactly 2 players for a 1v1 race")>>
                 /\ raised' = FALSE
                 /\ UNCHANGED <<rooms, tasks>>
            ELSE IF room.host_sid # sid /\ ~HasMember(room.players, sid)
            THEN \* room['players'][sid] raises KeyError
                 /\ out' = <<>>
                 /\ raised' = TRUE
                 /\ UNCHANGED <<rooms, tasks>>
            ELSE IF RequesterNotReady(room, sid)
            THEN /\ out' = <<Error(sid, "You must be ready to start the race")>>
                 /\ raised' = FALSE
                 /\ UNCHANGED <<rooms, tasks>>
            ELSE IF ~AllOthersReady(room, sid)
            THEN /\ out' = <<Error(sid, "All players must be ready to start the race")>>
                 /\ raised' = FALSE
                 /\ UNCHANGED <<rooms, tasks>>
            ELSE /\ Len(tasks) < limit.tasks
                 /\ rooms' = [rooms EXCEPT ![room_id].status = "racing"]
                 /\ out' = ToAll(room.players, "race_starting", sid, 0)
                 /\ tasks' = Append(tasks, NewTask("start_race", room_id, sid))
                 /\ raised' = FALSE
    /\ UNCHANGED <<players, next_sid, next_room, limit, race_data>>

\* The keys of room['players'] as a suspended start_race finds them.
TaskMembers(t) == IF t.detached THEN t.held ELSE Keys(rooms[t.room_id].players)

\* An emit to the first sid of the list only.
ToFirstSid(sids, ev, pid, n) == [i \in 1..(IF sids = <<>> THEN 0 ELSE 1) |-> Msg(ev, sids[i], "", pid, n)]

\* One emit per sid of the list, in order.
ToSids(sids, ev, pid, n) == [i \in 1..Len(sids) |-> Msg(ev, sids[i], "", pid, n)]

\* The resumption after asyncio.sleep(1): "Send countdown event".
RaceCountdown(i) ==
    /\ i \in 1..Len(tasks)
    /\ tasks[i].pc = "sleep1"
    /\ LET t == tasks[i] IN
       out' = IF t.kind = "start_race"
              THEN ToSids(TaskMembers(t), "race_countdown", None, 3)
              ELSE <<Msg("race_countdown", t.sid, "", None, 3)>>
    /\ raised' = FALSE
    /\ tasks' = [tasks EXCEPT ![i].pc = "sleep3"]
    /\ UNCHANGED <<players, rooms, next_sid, next_room, limit, race_data>>

\* tasks without its i-th entry.
Finished(tsk, i) == [j \in 1..(Len(tsk) - 1) |-> IF j < i THEN tsk[j] ELSE tsk[j + 1]]

\* The resumption after asyncio.sleep(3), to the handler's end.  start_race
\* records race_start_time on the room it holds and then emits race_start,
\* reading players[sid]['name'] for each emit: KeyError once the requester
\* has disconnected.  join_race reads rooms[room_id]: KeyError once the room
\* has left the registry.
RaceStart(i) ==
    /\ i \in 1..Len(tasks)
    /\ tasks[i].pc = "sleep3"
    /\ LET t == tasks[i] IN
       IF t.kind = "start_race"
       THEN LET raises == TaskMembers(t) # <<>> /\ t.sid \notin DOMAIN players
            IN /\ rooms' = IF t.detached THEN rooms
                           ELSE [rooms EXCEPT ![t.room_id].race_start_time = TRUE]
               /\ out' = IF raises THEN <<>> ELSE ToSids(TaskMembers(t), "race_start", None, 0)
               /\ raised' = raises
       ELSE LET raises == t.room_id \notin DOMAIN rooms
            IN /\ out' = IF raises THEN <<>> ELSE <<Msg("race_start", t.sid, "", None, 0)>>
               /\ raised' = raises
               /\ UNCHANGED rooms
    /\ tasks' = Finished(tasks, i)
    /\ UNCHANGED <<players, next_sid, next_room, limit, race_data>>

----------------------------------------------------------------------------
\* player_update: the reported numbers are clamped and relayed; here only
\* whether a baseline is stored and who is sent the update.  A sender who is
\* no member of the room raises KeyError inside the handler's try, which
\* drops the update.
PlayerUpdate(sid) ==
    /\ sid \in DOMAIN players
    /\ LET room_id == players[sid].room_id IN
       IF InRoom(sid) /\ rooms[room_id].status = "racing"
       THEN IF HasMember(rooms[room_id].players, sid)
            THEN /\ rooms' = [rooms EXCEPT
                                ![room_id].players[IndexOf(rooms[room_id].players, sid)].last_position = TRUE,
                                ![room_id].idle = FALSE]
                 /\ out' = ToOthers(rooms[room_id].players, sid, "player_update", sid, 0)
                 /\ raised' = FALSE
            ELSE /\ out' = <<>>
                 /\ raised' = TRUE
                 /\ UNCHANGED rooms
       ELSE /\ out' = <<>>
            /\ raised' = FALSE
            /\ UNCHANGED rooms
    /\ UNCHANGED <<players, next_sid, next_room, tasks, limit>>

\* join_race up to its first sleep: always a fresh room, the caller its only
\* member; a caller who says is_host sets the room racing and goes on to the
\* countdown.
JoinRace(sid, is_host, car_data) ==
    /\ sid \in DOMAIN players
    /\ next_room <= limit.rooms
    /\ is_host => Len(tasks) < limit.tasks
    /\ LET room_id == next_room
           player_name == players[sid].name
           member == NewMember(sid, player_name, is_host, TRUE, car_data)
       IN /\ rooms' = SetKey(rooms, room_id,
                         NewRoom(IF is_host THEN sid ELSE None, member,
                                 IF is_host THEN "racing" ELSE "waiting"))
          /\ players' = [players EXCEPT ![sid].room_id = room_id]
          /\ out' = <<Msg("race_joined", sid, "", sid, 0)>>
          /\ tasks' = IF is_host
                      THEN Append(tasks, NewTask("join_race", room_id, sid))
                      ELSE tasks
          /\ raised' = FALSE
    /\ next_room' = next_room + 1
    /\ UNCHANGED <<next_sid, limit, race_data>>

\* The members with finished and ready both taken back.
ResetReady(ps) == [i \in 1..Len(ps) |-> [ps[i] EXCEPT !.finished = FALSE, !.ready = FALSE]]

\* "Reset player race data"
ResetRaceData(ps) == [i \in 1..Len(ps) |-> [ps[i] EXCEPT !.finished = FALSE]]

\* player_finish: the finish time is clamped and recorded; here only the
\* finished flags, the emits and the reset.  The handler reads the sender's
\* member first: KeyError for a sender who is no member of the room.
PlayerFinish(sid) ==
    /\ sid \in DOMAIN players
    /\ LET room_id == players[sid].room_id IN
       IF InRoom(sid) /\ rooms[room_id].status = "racing"
       THEN IF HasMember(rooms[room_id].players, sid)
            THEN LET ps == [rooms[room_id].players EXCEPT
                              ![IndexOf(rooms[room_id].players, sid)].finished = TRUE]
                     all_finished == \A i \in 1..Len(ps) : ps[i].finished
                 IN /\ rooms' = IF all_finished
                                THEN [rooms EXCEPT ![room_id].players = ResetRaceData(ps),
                                                   ![room_id].status = "waiting",
                                                   ![room_id].idle = FALSE]
                                ELSE [rooms EXCEPT ![room_id].players = ps,
                                                   ![room_id].idle = FALSE]
                    /\ out' = ToAll(ps, "player_finished", sid, 0)
                              \o (IF all_finished THEN ToAll(ps, "race_results", None, 0) ELSE <<>>)
                    /\ raised' = FALSE
            ELSE /\ out' = <<>>
                 /\ raised' = TRUE
                 /\ UNCHANGED rooms
       ELSE /\ out' = <<>>
            /\ raised' = FALSE
            /\ UNCHANGED rooms
    /\ UNCHANGED <<players, next_sid, next_room, tasks, limit>>

----------------------------------------------------------------------------
\* cleanup_inactive_rooms: one pass of its loop body

\* The archive's first entry past its timeout, 0 when there is none.
FirstExpired(arch) ==
    IF \E i \in 1..Len(arch) : arch[i].expired
    THEN CHOOSE i \in 1..Len(arch) : arch[i].expired /\ \A j \in 1..(i - 1) : ~arch[j].expired
    ELSE 0

\* The rooms are visited in the dict's order, from room_id on.  A room with
\* an entry past its timeout has the entry deleted and then read again
\* (del d[name]; d[name].get('sid')): KeyError, which ends the pass before
\* "Remove inactive rooms".
RECURSIVE Sweep(_, _, _)
Sweep(room_id, rms, rooms_to_remove) ==
    IF room_id >= next_room
    THEN [rooms |-> [r \in DOMAIN rms \ rooms_to_remove |-> rms[r]], raised |-> FALSE]
    ELSE IF room_id \notin DOMAIN rms
    THEN Sweep(room_id + 1, rms, rooms_to_remove)
    ELSE LET room_data == rms[room_id]
             i == FirstExpired(room_data.disconnected_players)
         IN IF room_data.players = <<>> \/ room_data.idle
            THEN Sweep(room_id + 1, rms, rooms_to_remove \cup {room_id})
            ELSE IF i # 0
            THEN [rooms |-> [rms EXCEPT ![room_id].disconnected_players =
                                 [j \in 1..(Len(@) - 1) |-> IF j < i THEN @[j] ELSE @[j + 1]]],
                  raised |-> TRUE]
            ELSE Sweep(room_id + 1, rms, rooms_to_remove)

Reaper ==
    /\ LET s == Sweep(1, rooms, {}) IN
       /\ rooms' = s.rooms
       /\ tasks' = Sync(tasks, rooms, rooms, s.rooms)
       /\ raised' = s.raised
    /\ out' = <<>>
    /\ UNCHANGED <<players, next_sid, next_room, limit, race_data>>

\* Time passes: a room's last activity becomes more than 600 old.
ElapseIdle(room_id) ==
    /\ room_id \in DOMAIN rooms
    /\ ~rooms[room_id].idle
    /\ rooms' = [rooms EXCEPT ![room_id].idle = TRUE]
    /\ out' = <<>>
    /\ raised' = FALSE
    /\ UNCHANGED <<players, next_sid, next_room, tasks, limit, race_data>>

\* Time passes: the oldest archive entry still within its timeout passes it.
ElapseGrace(room_id) ==
    /\ room_id \in DOMAIN rooms
    /\ LET arch == rooms[room_id].disconnected_players IN
       /\ \E i \in 1..Len(arch) : ~arch[i].expired
       /\ LET i == CHOOSE k \in 1..Len(arch) : ~arch[k].expired /\ \A j \in 1..(k - 1) : arch[j].expired
          IN rooms' = [rooms EXCEPT ![room_id].disconnected_players[i].expired = TRUE]
    /\ out' = <<>>
    /\ raised' = FALSE
    /\ UNCHANGED <<players, next_sid, next_room, tasks, limit, race_data>>

----------------------------------------------------------------------------
\* The numbers of player_update and player_finish
\*
\* race_data holds the numbers the two handlers store and send:
\* last_position[sid] is the member's last_position (read only while the
\* member's last_position flag is set), finish_time[sid] the member's
\* finish_time in hundredths of a second (read only while the member's
\* finished flag is set: the two keys are set and deleted together);
\* position, speed, sent_finish_time and results are the payload of the last
\* player_update, player_finished and race_results emitted; updates counts the reports taken.  Times between two updates are
\* in twentieths of a second.

\* A value of a JSON payload: an int or float, a bool, or anything else
\* (string, null, list, object).  n is its value as a number.
Number(n) == [kind |-> "number", n |-> n]

Bool(b) == [kind |-> "bool", n |-> IF b THEN 1 ELSE 0]

Other == [kind |-> "other", n |-> 0]

\* A key the payload does not have.
Absent == [kind |-> "absent", n |-> 0]

\* data.get(key, 0)
Get(v) == IF v.kind = "absent" THEN Number(0) ELSE v

\* isinstance(v, (int, float)); bool is a subclass of int.
IsNumber(v) == v.kind \in {"number", "bool"}

\* Python's min(a, b) and max(a, b): the first of the two unless the second
\* is strictly smaller (larger).
Min(a, b) == IF b.n < a.n THEN b ELSE a

Max(a, b) == IF b.n > a.n THEN b ELSE a

\* The position as reported: no limit applied.
Unlimited(position) == position

\* "Limit position to reasonable range (-1000 to 10000)"
LimitPosition(position) == Max(Number(-1000), Min(Number(10000), position))

\* "Limit speed to reasonable range (0 to 500)"
LimitSpeed(speed) == Max(Number(0), Min(Number(500), speed))

\* The position as limited to its range: no movement check.
Unchecked(position, last_position, time_diff) == position

\* "Check for unrealistic movement (anti-cheat)": 300 units per second make
\* 15 per twentieth; time_diff > 0.1 is more than 2 twentieths.
Plausible(position, last_position, time_diff) ==
    LET max_movement == 15 * time_diff
        actual_movement == IF position.n >= last_position.n
                           THEN position.n - last_position.n
                           ELSE last_position.n - position.n
    IN IF actual_movement > max_movement /\ time_diff > 2
       THEN IF position.n > last_position.n
            THEN Number(last_position.n + max_movement)
            ELSE Number(last_position.n - max_movement)
       ELSE position

\* The position player_update stores and relays.
ValidPosition(position, has_last, last_position, time_diff) ==
    LET p == LimitPosition(IF IsNumber(Get(position)) THEN Get(position) ELSE Number(0))
    IN IF has_last THEN Plausible(p, last_position, time_diff) ELSE p

\* The speed player_update relays.
ValidSpeed(speed) == LimitSpeed(IF IsNumber(Get(speed)) THEN Get(speed) ELSE Number(0))

\* Whether player_update and player_finish go past their guards for sid and
\* find sid among the room's members.
Accepted(sid) ==
    /\ InRoom(sid)
    /\ rooms[players[sid].room_id].status = "racing"
    /\ HasMember(rooms[players[sid].room_id].players, sid)

\* player_update with its numbers.
PlayerUpdateData(sid, data, time_diff) ==
    /\ race_data.updates < MaxUpdates
    /\ PlayerUpdate(sid)
    /\ IF Accepted(sid)
       THEN LET m == GetMember(rooms[players[sid].room_id].players, sid)
                position == ValidPosition(data.position, m.last_position,
                                          race_data.last_position[sid], time_diff)
            IN race_data' = [race_data EXCEPT !.last_position[sid] = position,
                                              !.position = position,
                                              !.speed = ValidSpeed(data.speed),
                                              !.updates = @ + 1]
       ELSE UNCHANGED race_data

\* The finish time as reported: no limit applied.
AsReported(finish_time, race_start_time, race_duration) == Get(finish_time).n

\* The results in the dict's order.
Unsorted(results) == results

\* The finish time player_finish records, in hundredths of a second:
\* 999.99 for what is no number, 30.0 instead of less than 10 in a race that
\* started less than 10 seconds ago, then limited to 10.0 .. 999.99.
ValidFinishTime(finish_time, race_start_time, race_duration) ==
    LET given == IF IsNumber(Get(finish_time)) THEN Get(finish_time).n ELSE 99999
        checked == IF race_start_time /\ race_duration < 10 /\ given < 1000
                   THEN Max(Number(given), Number(3000)).n
                   ELSE given
    IN Max(Number(1000), Min(Number(99999), Number(checked))).n

\* results.sort(key=lambda x: x['finish_time']): the entry put in its place
\* behind the entries that are not larger (the sort is stable).
RECURSIVE Insert(_, _)
Insert(results, e) ==
    IF results = <<>> THEN <<e>>
    ELSE IF e.finish_time < Head(results).finish_time THEN <<e>> \o results
    ELSE <<Head(results)>> \o Insert(Tail(results), e)

RECURSIVE Sorted(_)
Sorted(results) ==
    IF results = <<>> THEN <<>>
    ELSE Insert(Sorted(SubSeq(results, 1, Len(results) - 1)), results[Len(results)])

\* "Prepare results": one entry per member, in the dict's order.
Results(ps, finish_time) ==
    [i \in 1..Len(ps) |-> [player_name |-> ps[i].name, finish_time |-> finish_time[ps[i].sid]]]

\* player_finish with its numbers; race_duration is current_time -
\* race_start_time in seconds.
PlayerFinishData(sid, data, race_duration) ==
    /\ race_data.updates < MaxUpdates
    /\ PlayerFinish(sid)
    /\ IF Accepted(sid)
       THEN LET room == rooms[players[sid].room_id]
                finish_time == ValidFinishTime(data.finish_time, room.race_start_time, race_duration)
                times == [race_data.finish_time EXCEPT ![sid] = finish_time]
                all_finished == \A i \in 1..Len(room.players) :
                                   room.players[i].sid = sid \/ room.players[i].finished
            IN race_data' = [race_data EXCEPT
                               !.finish_time = times,
                               !.sent_finish_time = finish_time,
                               !.results = IF all_finished
                                           THEN Sorted(Results(room.players, times))
                                           ELSE <<>>,
                               !.updates = @ + 1]
       ELSE UNCHANGED race_data

----------------------------------------------------------------------------
\* The handlers by what they are about

Lobby ==
    \/ \E sid \in Sids : Connect(sid)
    \/ \E sid \in Sids : Disconnect(sid)
    \/ \E sid \in Sids : CreateRoom(sid)
    \/ \E sid \in Sids, room_id \in RoomIds : JoinRoom(sid, room_id)
    \/ \E sid \in Sids : LeaveRoom(sid)

Ready ==
    \E sid \in Sids, ready_status \in BOOLEAN : PlayerReady(sid, ready_status)

StartRequest ==
    \E sid \in Sids : StartRace(sid)

Resume ==
    \/ \E i \in 1..limit.tasks : RaceCountdown(i)
    \/ \E i \in 1..limit.tasks : RaceStart(i)

\* player_finish as to who has finished; the times are left out.
Finish ==
    \E sid \in Sids : PlayerFinish(sid) /\ UNCHANGED race_data

\* join_race with a payload that names a car, and with one that does not
\* (car_data then defaults to {}).
DirectRace ==
    \E sid \in Sids, is_host \in BOOLEAN, car_data \in BOOLEAN : JoinRace(sid, is_host, car_data)

DirectRaceNoCar ==
    \E sid \in Sids, is_host \in BOOLEAN : JoinRace(sid, is_host, FALSE)

Cleanup ==
    \/ Reaper
    \/ \E room_id \in RoomIds : ElapseIdle(room_id)
    \/ \E room_id \in RoomIds : ElapseGrace(room_id)

Cars ==
    \E sid \in Sids : SelectCar(sid)

Chat ==
    \E sid \in Sids : ChatMessage(sid)

\* player_update as to who is sent the update; the numbers are left out.
Telemetry ==
    \E sid \in Sids : PlayerUpdate(sid) /\ UNCHANGED race_data

\* Two players get into a room; nobody leaves.
Lineup ==
    \/ \E sid \in Sids : Connect(sid)
    \/ \E sid \in Sids : CreateRoom(sid)
    \/ \E sid \in Sids, room_id \in RoomIds : JoinRoom(sid, room_id)

\* The players say they are ready and do not take it back.
ReadyUp ==
    \E sid \in Sids : PlayerReady(sid, TRUE)

\* The reports a client may send: positions below, inside and above the
\* range, speeds likewise, values that are no numbers, keys left out.
Positions == {Number(-2000), Number(0), Number(5000), Number(15000), Bool(TRUE), Other}

Speeds == {Number(-5), Number(600), Other, Absent}

\* 0.05 s and 0.15 s since the last update.
TimeDiffs == {1, 3}

FinishTimes == {Number(200), Number(4010), Number(4520), Number(500000), Other}

\* 3 s and 10 s since the race started.
RaceDurations == {3, 10}

TelemetryData ==
    \E sid \in Sids, position \in Positions, speed \in Speeds, time_diff \in TimeDiffs :
        PlayerUpdateData(sid, [position |-> position, speed |-> speed], time_diff)

FinishData ==
    \E sid \in Sids, finish_time \in FinishTimes, race_duration \in RaceDurations :
        PlayerFinishData(sid, [finish_time |-> finish_time], race_duration)

\* Every handler, in the smallest scenario with two players in a room.
Init == Scenario(NumSids - 1, MaxRooms - 1, MaxTasks)

Next ==
    \/ Lobby \/ Ready \/ StartRequest \/ Resume \/ Finish
    \/ DirectRace \/ Cleanup \/ Cars \/ Chat \/ Telemetry

Spec == Init /\ [][Next]_vars

\* Three connections and one room: rooms filling up, members leaving and
\* being reaped, races starting.
InitLobby == Scenario(NumSids, MaxRooms - 1, MaxTasks)

NextLobby == Lobby \/ Ready \/ StartRequest \/ Resume \/ DirectRaceNoCar \/ Cleanup

SpecLobby == InitLobby /\ [][NextLobby]_vars

\* Two connections and two rooms: a participant moving between rooms.
InitRooms == Scenario(NumSids - 1, MaxRooms, MaxTasks)

NextRooms == Lobby \/ DirectRaceNoCar \/ Resume

SpecRooms == InitRooms /\ [][NextRooms]_vars

\* Two connections and one room: the start request with and without cars.
InitStart == Scenario(NumSids - 1, MaxRooms - 1, MaxTasks)

NextStart == Lobby \/ Ready \/ StartRequest \/ Resume \/ Finish \/ DirectRace \/ Cars \/ Chat

SpecStart == InitStart /\ [][NextStart]_vars

\* Two connections and one room: the race from the start request to the
\* results, with telemetry.
InitRace == Scenario(NumSids - 1, MaxRooms - 1, MaxTasks)

NextRace == Lobby \/ Ready \/ StartRequest \/ Resume \/ Finish \/ Telemetry

SpecRace == InitRace /\ [][NextRace]_vars

\* Two connections and one room: a race with the numbers of its reports.
InitNumbers == Scenario(NumSids - 1, MaxRooms - 1, MaxTasks)

NextNumbers == Lineup \/ ReadyUp \/ StartRequest \/ Resume \/ TelemetryData \/ FinishData

SpecNumbers == InitNumbers /\ [][NextNumbers]_vars

\* Two connections and two rooms with the reaper: a sweep that meets a room
\* to delete and a room with an entry past its timeout.
InitSweep == Scenario(NumSids - 1, MaxRooms, MaxTasks)

NextSweep == Lobby \/ DirectRaceNoCar \/ Resume \/ Cleanup

SpecSweep == InitSweep /\ [][NextSweep]_vars

\* Two connections and one room with the reaper: a race in which a member
\* disconnects, the other finishes, and the archive entry passes its timeout.
InitGrace == Scenario(NumSids - 1, MaxRooms - 1, MaxTasks)

NextGrace == Lobby \/ ReadyUp \/ StartRequest \/ Resume \/ Finish \/ Cleanup

SpecGrace == InitGrace /\ [][NextGrace]_vars

\* asyncio.sleep returns once its delay has passed and the event loop then
\* resumes the handler: the oldest suspended handler is not left waiting.
SpecRaceFair == SpecRace /\ WF_vars(RaceCountdown(1) \/ RaceStart(1))
----------------------------------------------------------------------------
\* Claims

\* Whether sid is a member of the room marked ready.
MarkedReady(room, sid) ==
    \E i \in 1..Len(room.players) : room.players[i].sid = sid /\ room.players[i].ready

\* The members of the room other than sid.
OtherSids(room, sid) == MemberSids(room.players) \ {sid}

\* C1: every room has at most 2 members in every reachable state, and a
\* join_room addressed to a room that has 2 members emits the error
\* 'Room is full' to the caller and leaves that room's members as they were.
C1_AtMostTwoMembers ==
    /\ [](\A r \in DOMAIN rooms : Len(rooms[r].players) <= 2)
    /\ [][\A sid \in Sids, room_id \in RoomIds :
            (JoinRoom(sid, room_id) /\ room_id \in DOMAIN rooms
                                   /\ Len(rooms[room_id].players) = 2)
            => /\ out' = <<Error(sid, "Room is full")>>
               /\ room_id \in DOMAIN rooms'
               /\ rooms'[room_id].players = rooms[room_id].players]_vars

\* A third participant was refused a room that holds two others.
C1_Witness ==
    \E r \in DOMAIN rooms, sid \in DOMAIN players :
        /\ Len(rooms[r].players) = 2
        /\ ~HasMember(rooms[r].players, sid)
        /\ out = <<Error(sid, "Room is full")>>

\* C2: every room with members has exactly one member whose is_host is
\* true, and that member's sid is the room's host_sid.
C2_ExactlyOneHost ==
    \A r \in DOMAIN rooms :
        LET ps == rooms[r].players IN
        ps # <<>> =>
            \E i \in 1..Len(ps) :
                /\ ps[i].is_host
                /\ ps[i].sid = rooms[r].host_sid
                /\ \A j \in 1..Len(ps) : ps[j].is_host => j = i

\* C3: when the host leaves or disconnects while one other, still connected
\* member remains, then at the end of that step the other member is the
\* host: host_sid names it, its is_host is true, and host_transferred was
\* sent to it.
C3_HostTransferred ==
    [][\A sid \in Sids, other \in Sids :
        (/\ LeaveRoom(sid) \/ Disconnect(sid)
         /\ InRoom(sid)
         /\ rooms[players[sid].room_id].host_sid = sid
         /\ MemberSids(rooms[players[sid].room_id].players) = {sid, other}
         /\ other # sid
         /\ other \in DOMAIN players)
        => LET room_id == players[sid].room_id IN
           /\ room_id \in DOMAIN rooms'
           /\ rooms'[room_id].host_sid = other
           /\ \E i \in 1..Len(rooms'[room_id].players) :
                  rooms'[room_id].players[i].sid = other /\ rooms'[room_id].players[i].is_host
           /\ \E k \in 1..Len(out') : out'[k].ev = "host_transferred" /\ out'[k].to = other]_vars

\* C4: a room whose status is racing has exactly 2 members.
C4_RacingHasTwoMembers ==
    \A r \in DOMAIN rooms : rooms[r].status = "racing" => Len(rooms[r].players) = 2

\* C5: each connection id is a member of at most one room.
C5_AtMostOneRoom ==
    \A sid \in Sids :
        Cardinality({r \in DOMAIN rooms : HasMember(rooms[r].players, sid)}) <= 1

\* C6: a start_race from a member of a room fails with one error to the
\* requester, no race_starting, and the registry and the suspended handlers
\* as they were, when the room has not exactly 2 members, or the requester
\* is neither the host nor marked ready, or a member other than the requester
\* is not marked ready; in every other case it sets the room racing and
\* sends race_starting to both members, whatever their car_data.
C6_StartRaceGate ==
    [][\A sid \in Sids :
        (StartRace(sid) /\ InRoom(sid))
        => LET room_id == players[sid].room_id
               room == rooms[room_id]
               fails == \/ Len(room.players) # 2
                        \/ room.host_sid # sid /\ ~MarkedReady(room, sid)
                        \/ \E o \in OtherSids(room, sid) : ~MarkedReady(room, o)
           IN IF fails
              THEN /\ Len(out') = 1 /\ out'[1].ev = "error" /\ out'[1].to = sid
                   /\ rooms' = rooms
                   /\ tasks' = tasks
              ELSE /\ rooms'[room_id].status = "racing"
                   /\ Len(out') = 2
                   /\ \A k \in 1..2 : out'[k].ev = "race_starting"
                   /\ {out'[k].to : k \in 1..2} = MemberSids(room.players)]_vars

\* A race was announced to two members of whom one has selected no car and
\* the host is not marked ready.
C6_Witness ==
    \E r \in DOMAIN rooms :
        LET ps == rooms[r].players IN
        /\ Len(out) = 2 /\ out[1].ev = "race_starting"
        /\ rooms[r].status = "racing"
        /\ Len(ps) = 2
        /\ \E i \in 1..2 : ~ps[i].car_data
        /\ \E i \in 1..2 : ps[i].sid = rooms[r].host_sid /\ ~ps[i].ready

\* Whether the step is a resumption of the start_race suspended as tasks[i].
Resumes(i) ==
    /\ i \in 1..Len(tasks)
    /\ tasks[i].kind = "start_race"
    /\ RaceCountdown(i) \/ RaceStart(i)

\* The sids the emits of a list go to.
Recipients(emits) == {emits[k].to : k \in 1..Len(emits)}

\* Whether nobody joined, left or disconnected since the start_race
\* suspended as tasks[i] was accepted: the room has the members it had and
\* both are still connected.
Undisturbed(i) ==
    /\ tasks[i].stable
    /\ ~tasks[i].detached
    /\ \A sid \in MemberSids(rooms[tasks[i].room_id].players) : sid \in DOMAIN players

\* C7: after a start_race that succeeded, while nobody joins, leaves or
\* disconnects, the resumption after the first delay sends race_countdown
\* with duration 3 to both members, and the resumption after the countdown
\* records race_start_time and sends race_start to both members; the oldest
\* suspended sequence always eventually reaches its end.
C7_StartSequence ==
    /\ [][\A i \in 1..Len(tasks) :
            (Resumes(i) /\ Undisturbed(i))
            => LET t == tasks[i] IN
               /\ Len(out') = 2
               /\ Recipients(out') = MemberSids(rooms[t.room_id].players)
               /\ RaceCountdown(i) =>
                     /\ t.pc = "sleep1"
                     /\ \A k \in 1..2 : out'[k].ev = "race_countdown" /\ out'[k].n = 3
               /\ RaceStart(i) =>
                     /\ t.pc = "sleep3"
                     /\ \A k \in 1..2 : out'[k].ev = "race_start"
                     /\ rooms'[t.room_id].race_start_time]_vars
    /\ \/ []<>(tasks = <<>>)
       \/ []<><<RaceStart(1)>>_vars

C7_Witness ==
    /\ tasks = <<>>
    /\ ~raised
    /\ Len(out) = 2
    /\ \A k \in 1..2 : out[k].ev = "race_start" /\ out[k].to \in DOMAIN players
    /\ \E r \in DOMAIN rooms :
         /\ Recipients(out) = MemberSids(rooms[r].players)
         /\ rooms[r].race_start_time
         /\ rooms[r].status = "racing"

\* C8: a resumption of start_race broadcasts only while the room is in the
\* registry with exactly 2 members, and does not leave a room with fewer
\* members racing.
C8_Revalidates ==
    [][\A i \in 1..Len(tasks) :
        Resumes(i)
        => LET t == tasks[i] IN
           /\ out' # <<>> =>
                 /\ t.room_id \in DOMAIN rooms
                 /\ Len(rooms[t.room_id].players) = 2
           /\ (RaceStart(i) /\ t.room_id \in DOMAIN rooms'
                            /\ Len(rooms'[t.room_id].players) < 2)
                 => rooms'[t.room_id].status # "racing"]_vars

\* C9: whatever left or disconnected during the delays, a resumption of
\* start_race raises nothing and sends only to the members the room has at
\* that moment.
C9_ResumeNeverRaises ==
    [][\A i \in 1..Len(tasks) :
        Resumes(i)
        => /\ ~raised'
           /\ Recipients(out') = {TaskMembers(tasks[i])[k] : k \in 1..Len(TaskMembers(tasks[i]))}]_vars

\* The start_race handlers suspended on the room.
Starting(room_id) ==
    {i \in 1..Len(tasks) : tasks[i].kind = "start_race" /\ tasks[i].room_id = room_id}

\* C10: from a successful start request until race_start is broadcast the
\* room is not racing, and a player_update or player_finish of a member in
\* that window emits nothing and leaves the room as it was.
C10_RacingAfterCountdown ==
    /\ [](\A r \in DOMAIN rooms : Starting(r) # {} => rooms[r].status # "racing")
    /\ [][\A sid \in Sids :
            (/\ PlayerUpdate(sid) \/ PlayerFinish(sid)
             /\ InRoom(sid)
             /\ Starting(players[sid].room_id) # {})
            => out' = <<>> /\ rooms' = rooms]_vars

\* Whether the member sid of its room has a last_position stored.
HasBaseline(sid) ==
    GetMember(rooms[players[sid].room_id].players, sid).last_position

\* C11: after any sequence of updates the position stored and relayed lies in
\* -1000..10000, also when it was adjusted to the plausible movement, and
\* the speed relayed in 0..500; what is relayed is what is stored; for every
\* member whose update would be accepted a position or speed that is no
\* number counts as 0, speed -5 is relayed as 0 and, by a member without a
\* last_position, position 15000 as 10000.
C11_TelemetryLimits ==
    /\ race_data.position.n \in -1000..10000
    /\ race_data.speed.n \in 0..500
    /\ \A sid \in DOMAIN race_data.last_position :
         race_data.last_position[sid].n \in -1000..10000
    /\ (out # <<>> /\ out[1].ev = "player_update")
         => race_data.last_position[out[1].pid] = race_data.position
    /\ \A sid \in Sids, time_diff \in TimeDiffs :
         Accepted(sid)
         => LET last == race_data.last_position[sid] IN
            /\ ValidPosition(Other, HasBaseline(sid), last, time_diff)
                 = ValidPosition(Number(0), HasBaseline(sid), last, time_diff)
            /\ ~HasBaseline(sid)
                 => ValidPosition(Number(15000), HasBaseline(sid), last, time_diff) = Number(10000)
            /\ ValidSpeed(Other) = Number(0)
            /\ ValidSpeed(Number(-5)) = Number(0)

C11_Witness ==
    /\ race_data.updates = 2
    /\ race_data.position = Number(10000)
    /\ race_data.speed = Number(0)
    /\ \E sid \in DOMAIN players :
         /\ Accepted(sid)
         /\ HasBaseline(sid)
         /\ race_data.last_position[sid] = Number(10000)
         /\ out = ToOthers(rooms[players[sid].room_id].players, sid, "player_update", sid, 0)
         /\ out # <<>>

\* C12: a member with a stored last_position who reports a position 5000
\* away from it 0.05 s after it has the position stored and relayed that is
\* 300 x 0.05 = 15 away from the last one, towards the reported one.
C12_JumpLimited ==
    [][\A sid \in Sids, position \in Positions, speed \in Speeds :
        (/\ PlayerUpdateData(sid, [position |-> position, speed |-> speed], 1)
         /\ Accepted(sid)
         /\ HasBaseline(sid)
         /\ IsNumber(position))
        => LET last == race_data.last_position[sid].n IN
           /\ position.n = last + 5000 => race_data'.position.n = last + 15
           /\ position.n = last - 5000 => race_data'.position.n = last - 15]_vars

\* C13: a player_update is relayed to the members of the sender's room other
\* than the sender and to nobody else; when the sender's room is not in the
\* registry or is not racing, nothing is emitted and no room changes.
C13_RelayToOthersOnly ==
    [][\A sid \in Sids :
        PlayerUpdate(sid)
        => /\ \A k \in 1..Len(out') :
                 /\ out'[k].ev = "player_update"
                 /\ out'[k].to # sid
                 /\ InRoom(sid)
                 /\ out'[k].to \in MemberSids(rooms[players[sid].room_id].players)
           /\ Accepted(sid) =>
                 Recipients(out') = MemberSids(rooms[players[sid].room_id].players) \ {sid}
           /\ (~InRoom(sid) \/ rooms[players[sid].room_id].status # "racing")
                 => out' = <<>> /\ rooms' = rooms /\ players' = players]_vars

C13_Witness ==
    /\ Len(out) = 1
    /\ out[1].ev = "player_update"
    /\ out[1].to # out[1].pid
    /\ \E r \in DOMAIN rooms :
         /\ rooms[r].status = "racing"
         /\ MemberSids(rooms[r].players) = {out[1].to, out[1].pid}
         /\ GetMember(rooms[r].players, out[1].pid).last_position

\* C14: every finish time recorded and broadcast lies in 10.0 .. 999.99; what
\* is no number gives 999.99; less than 10 reported less than 10 s after
\* race_start_time gives 30.0 (2.0 after 3 s); more than 999.99 (5000) gives
\* 999.99; less than 10 without race_start_time or 10 s or more into the
\* race gives 10.0.
C14_FinishTimeLimits ==
    /\ \A r \in DOMAIN rooms : \A i \in 1..Len(rooms[r].players) :
         rooms[r].players[i].finished
         => race_data.finish_time[rooms[r].players[i].sid] \in 1000..99999
    /\ (out # <<>> /\ out[1].ev = "player_finished")
         => race_data.sent_finish_time \in 1000..99999
    /\ \A race_start_time \in BOOLEAN, race_duration \in RaceDurations :
         /\ ValidFinishTime(Other, race_start_time, race_duration) = 99999
         /\ ValidFinishTime(Number(500000), race_start_time, race_duration) = 99999
         /\ ValidFinishTime(Number(200), race_start_time, race_duration)
              = IF race_start_time /\ race_duration < 10 THEN 3000 ELSE 1000
    /\ ValidFinishTime(Number(200), TRUE, 3) = 3000

C14_Witness ==
    /\ out # <<>>
    /\ out[1].ev = "player_finished"
    /\ race_data.sent_finish_time = 3000
    /\ \E r \in DOMAIN rooms :
         /\ rooms[r].race_start_time
         /\ HasMember(rooms[r].players, out[1].pid)
         /\ GetMember(rooms[r].players, out[1].pid).finished
         /\ race_data.finish_time[out[1].pid] = 3000

\* Whether the finish times of the list ascend.
Ascending(results) ==
    \A i \in 1..(Len(results) - 1) : results[i].finish_time <= results[i + 1].finish_time

\* C15: a player_finish that makes every member of a racing room finished
\* sends race_results to every member in that same step, sets the room
\* waiting and clears every member's finished flag; the results have one
\* entry per member with the time recorded for it, in ascending order of
\* finish_time.
C15_ResultsAndReset ==
    /\ [][\A sid \in Sids :
            (/\ PlayerFinish(sid)
             /\ Accepted(sid)
             /\ \A m \in MemberSids(rooms[players[sid].room_id].players) \ {sid} :
                  GetMember(rooms[players[sid].room_id].players, m).finished)
            => LET room_id == players[sid].room_id IN
               /\ {out'[k].to : k \in {j \in 1..Len(out') : out'[j].ev = "race_results"}}
                    = MemberSids(rooms[room_id].players)
               /\ rooms'[room_id].status = "waiting"
               /\ MemberSids(rooms'[room_id].players) = MemberSids(rooms[room_id].players)
               /\ \A i \in 1..Len(rooms'[room_id].players) : ~rooms'[room_id].players[i].finished]_vars
    /\ [](\A k \in 1..Len(out) :
            out[k].ev = "race_results"
            => \E r \in DOMAIN rooms :
                 /\ HasMember(rooms[r].players, out[k].to)
                 /\ Len(race_data.results) = Len(rooms[r].players)
                 /\ \A i \in 1..Len(rooms[r].players) :
                      \E j \in 1..Len(race_data.results) :
                         /\ race_data.results[j].player_name = rooms[r].players[i].name
                         /\ race_data.results[j].finish_time
                              = race_data.finish_time[rooms[r].players[i].sid]
                 /\ Ascending(race_data.results))

\* The second member's time is the smaller one and its entry comes first.
C15_Witness ==
    /\ Len(out) = 4
    /\ out[4].ev = "race_results"
    /\ Len(race_data.results) = 2
    /\ race_data.results[1].finish_time = 4010
    /\ race_data.results[2].finish_time = 4520
    /\ \E r \in DOMAIN rooms :
         /\ rooms[r].status = "waiting"
         /\ Len(rooms[r].players) = 2
         /\ race_data.results[1].player_name = rooms[r].players[2].name

\* The emits of the list that are the event ev.
Of(emits, ev) == SelectSeq(emits, LAMBDA e : e.ev = ev)

\* C16: when a member of a racing room disconnects, the room keeps its
\* members, that member is flagged disconnected, the archive has an entry
\* under its name with its sid and timeout 60, every other member and nobody
\* else is sent player_disconnected with timeout 60 (can_reconnect is the
\* constant True), and players no longer has the sid.
C16_KeptWhileRacing ==
    [][\A sid \in Sids :
        (/\ Disconnect(sid)
         /\ InRoom(sid)
         /\ rooms[players[sid].room_id].status = "racing"
         /\ HasMember(rooms[players[sid].room_id].players, sid))
        => LET room_id == players[sid].room_id
               name == GetMember(rooms[room_id].players, sid).name
           IN /\ room_id \in DOMAIN rooms'
              /\ Keys(rooms'[room_id].players) = Keys(rooms[room_id].players)
              /\ GetMember(rooms'[room_id].players, sid).disconnected
              /\ \E i \in 1..Len(rooms'[room_id].disconnected_players) :
                   LET e == rooms'[room_id].disconnected_players[i] IN
                   e.name = name /\ e.sid = sid /\ e.timeout = 60 /\ ~e.expired
              /\ Recipients(Of(out', "player_disconnected"))
                   = MemberSids(rooms[room_id].players) \ {sid}
              /\ \A k \in 1..Len(out') :
                   out'[k].ev = "player_disconnected" => out'[k].pid = sid /\ out'[k].n = 60
              /\ sid \notin DOMAIN players']_vars

C16_Witness ==
    /\ out # <<>>
    /\ out[1].ev = "player_disconnected"
    /\ out[1].pid \notin DOMAIN players
    /\ \E r \in DOMAIN rooms :
         /\ rooms[r].status = "racing"
         /\ Len(rooms[r].players) = 2
         /\ HasMember(rooms[r].players, out[1].pid)
         /\ GetMember(rooms[r].players, out[1].pid).disconnected
         /\ HasMember(rooms[r].players, out[1].to)
         /\ Len(rooms[r].disconnected_players) = 1

\* C17: a sweep removes every archive entry past its timeout of a room it
\* keeps, removes the entry's member from the room if it is still there, and
\* sends player_left for it to every member that remains.
C17_ExpiredMemberRemoved ==
    [][Reaper =>
        \A r \in DOMAIN rooms \cap DOMAIN rooms' :
          \A i \in 1..Len(rooms[r].disconnected_players) :
            LET e == rooms[r].disconnected_players[i] IN
            e.expired
            => /\ \A j \in 1..Len(rooms'[r].disconnected_players) :
                    rooms'[r].disconnected_players[j].name # e.name
               /\ ~HasMember(rooms'[r].players, e.sid)
               /\ HasMember(rooms[r].players, e.sid)
                    => \A m \in MemberSids(rooms'[r].players) :
                          \E k \in 1..Len(out') :
                             out'[k] = Msg("player_left", m, "", e.sid, 0)]_vars

\* C18: a sweep deletes every room that had no members or was idle for more
\* than 600 when the sweep began, whatever the other rooms hold.
C18_StaleRoomsDeleted ==
    [][Reaper =>
        \A r \in DOMAIN rooms :
          (rooms[r].players = <<>> \/ rooms[r].idle) => r \notin DOMAIN rooms']_vars

\* C19: join_room emits one error to the caller and changes neither rooms
\* nor players when the room id is not in the registry (Room not found),
\* the room has 2 members (Room is full) or the room is racing (Race already
\* in progress); otherwise the caller is a member of the room with is_host
\* and ready false, the caller's room_id is the room, and player_joined is
\* sent to every member the room had other than the caller.
C19_JoinRoomOutcomes ==
    [][\A sid \in Sids, room_id \in RoomIds :
        JoinRoom(sid, room_id)
        => LET failure == IF room_id \notin DOMAIN rooms THEN "Room not found"
                          ELSE IF Len(rooms[room_id].players) = 2 THEN "Room is full"
                          ELSE IF rooms[room_id].status = "racing" THEN "Race already in progress"
                          ELSE ""
           IN IF failure # ""
              THEN /\ out' = <<Error(sid, failure)>>
                   /\ rooms' = rooms
                   /\ players' = players
              ELSE /\ HasMember(rooms'[room_id].players, sid)
                   /\ ~GetMember(rooms'[room_id].players, sid).is_host
                   /\ ~GetMember(rooms'[room_id].players, sid).ready
                   /\ MemberSids(rooms'[room_id].players)
                        = MemberSids(rooms[room_id].players) \cup {sid}
                   /\ players'[sid].room_id = room_id
                   /\ Of(out', "error") = <<>>
                   /\ Recipients(Of(out', "player_joined"))
                        = MemberSids(rooms[room_id].players) \ {sid}
                   /\ \A r \in DOMAIN rooms \ {room_id} :
                        r \in DOMAIN rooms' /\ rooms'[r] = rooms[r]]_vars

C19_Witness ==
    \E sid \in DOMAIN players, r \in DOMAIN rooms :
      /\ out = <<Error(sid, "Race already in progress")>>
      /\ rooms[r].status = "racing"
      /\ Len(rooms[r].players) = 1
      /\ ~HasMember(rooms[r].players, sid)
      /\ players[sid].room_id = None

\* C20: no room of the registry is without members.
C20_NoEmptyRoom ==
    \A r \in DOMAIN rooms : rooms[r].players # <<>>

\* Whether sid's player_finish is accepted and every other member of the
\* room has finished: with this report the race is over.
LastToFinish(sid) ==
    /\ Accepted(sid)
    /\ \A m \in MemberSids(rooms[players[sid].room_id].players) \ {sid} :
         GetMember(rooms[players[sid].room_id].players, m).finished

\* C21: when the two members of a race have equal finish times recorded,
\* race_results lists them in the order they reported: the member whose
\* report ends the race comes second, whichever member that is.
C21_TiesInReportOrder ==
    [][\A sid \in Sids :
        (/\ PlayerFinish(sid)
         /\ LastToFinish(sid)
         /\ Len(rooms[players[sid].room_id].players) = 2
         /\ Len(race_data'.results) = 2
         /\ race_data'.results[1].finish_time = race_data'.results[2].finish_time)
        => race_data'.results[2].player_name
             = GetMember(rooms[players[sid].room_id].players, sid).name]_vars

\* The distance between two numbers.
Distance(a, b) == IF a >= b THEN a - b ELSE b - a

\* The times between two updates the claim is evaluated for, in twentieths
\* of a second: 0.05 s to 0.2 s and 1 s.
Elapsed == {1, 2, 3, 4, 20}

\* C22: for a member with a last_position stored, the position stored and
\* relayed is last_position + 300 x elapsed when the position limited to
\* its range is more than 300 x elapsed ahead of last_position and elapsed
\* is more than 0.1, last_position - 300 x elapsed when it is as far behind,
\* and the limited position itself in every other case; the update leaves
\* the member's last_position equal to the position it relayed.
C22_MovementLimit ==
    /\ \A sid \in Sids, position \in Positions, elapsed \in Elapsed :
         (Accepted(sid) /\ HasBaseline(sid))
         => LET last == race_data.last_position[sid]
                limited == LimitPosition(IF IsNumber(Get(position)) THEN Get(position) ELSE Number(0))
                max_movement == 15 * elapsed
                valid == ValidPosition(position, TRUE, last, elapsed)
            IN IF Distance(limited.n, last.n) > max_movement /\ elapsed > 2
               THEN valid = Number(IF limited.n > last.n THEN last.n + max_movement
                                                         ELSE last.n - max_movement)
               ELSE valid = limited
    /\ (out # <<>> /\ out[1].ev = "player_update")
         => /\ race_data.last_position[out[1].pid] = race_data.position
            /\ \E r \in DOMAIN rooms :
                 /\ HasMember(rooms[r].players, out[1].pid)
                 /\ GetMember(rooms[r].players, out[1].pid).last_position

\* An update 0.15 s after the last one, 5000 ahead of it, relayed as 45.
C22_Witness ==
    /\ race_data.updates = 2
    /\ race_data.position = Number(45)
    /\ out # <<>>
    /\ out[1].ev = "player_update"
    /\ race_data.last_position[out[1].pid] = Number(45)

\* Whether the step is a player_finish by sid that ends the race of sid's
\* room: the room goes from racing to waiting.
EndsRace(sid) ==
    /\ PlayerFinish(sid)
    /\ LastToFinish(sid)

\* C23: the player_finish that ends a race leaves no member of the room with
\* a last_position stored, so that the first player_update of the next race
\* is not checked against a position of the race before.
C23_BaselineCleared ==
    [][\A sid \in Sids :
        EndsRace(sid)
        => LET room_id == players[sid].room_id IN
           /\ rooms'[room_id].status = "waiting"
           /\ \A i \in 1..Len(rooms'[room_id].players) :
                /\ ~rooms'[room_id].players[i].finished
                /\ ~rooms'[room_id].players[i].last_position]_vars

\* Whether the last step sent sid the race_results: sid's room has just
\* been reset to waiting.
JustReset(sid) ==
    /\ InRoom(sid)
    /\ rooms[players[sid].room_id].status = "waiting"
    /\ HasMember(rooms[players[sid].room_id].players, sid)
    /\ \E k \in 1..Len(out) : out[k] = Msg("race_results", sid, "", None, 0)

\* Whether the step is a start_race by sid that is accepted.
Starts(sid) ==
    /\ StartRace(sid)
    /\ out' = ToAll(rooms[players[sid].room_id].players, "race_starting", sid, 0)
    /\ rooms'[players[sid].room_id].status = "racing"

C25_OneStartSequence ==
    [][\A sid \in Sids :
        (/\ StartRace(sid)
         /\ InRoom(sid)
         /\ rooms[players[sid].room_id].status = "racing")
        => /\ Of(out', "race_starting") = <<>>
           /\ tasks' = tasks
           /\ rooms' = rooms]_vars

\* C26: a player_finish from a member whose finish is already recorded
\* leaves the recorded finish time as it is and sends no player_finished.
C26_FinishRecordedOnce ==
    [][\A sid \in Sids :
        (/\ PlayerFinish(sid)
         /\ Accepted(sid)
         /\ GetMember(rooms[players[sid].room_id].players, sid).finished)
        => /\ Of(out', "player_finished") = <<>>
           /\ race_data'.finish_time[sid] = race_data.finish_time[sid]]_vars

\* Whether room r is racing with two members of which one is flagged
\* disconnected and has not finished and the other, still connected, has.
AwaitsDisconnected(r) ==
    /\ rooms[r].status = "racing"
    /\ Len(rooms[r].players) = 2
    /\ \E i, j \in 1..2 :
         /\ rooms[r].players[i].disconnected
         /\ ~rooms[r].players[i].finished
         /\ ~rooms[r].players[j].disconnected
         /\ rooms[r].players[j].finished

\* C27: when a sweep of the reaper takes the expired archive entry out of a
\* racing room whose other member has reported its finish, the room is
\* waiting at the end of the sweep and the remaining member has been sent
\* race_results.
C27_ResolvedWhenReaped ==
    [][Reaper =>
        \A r \in DOMAIN rooms :
          (/\ AwaitsDisconnected(r)
           /\ r \in DOMAIN rooms'
           /\ Len(rooms'[r].disconnected_players) < Len(rooms[r].disconnected_players))
          => /\ rooms'[r].status = "waiting"
             /\ \E k \in 1..Len(out') :
                  /\ out'[k].ev = "race_results"
                  /\ \E j \in 1..2 : /\ ~rooms[r].players[j].disconnected
                                      /\ out'[k].to = rooms[r].players[j].sid]_vars
====
